---- MODULE Spec2Model ----
(***************************************************************************)
(* Model of the transport layer of the game: common/src/net/connection.rs. *)
(* A Connection owns priority lanes of outgoing packets, a map of incoming *)
(* packets under reassembly, an mpsc channel of received events and the    *)
(* worker threads that move frames between the lanes, the stream transport *)
(* and the channel.  The stream transport connects the sending half to the *)
(* receiving half of a peer running the same code; both halves are the     *)
(* fields of one Connection value here.  open_udp() adds a datagram        *)
(* transport with a second pair of workers on the same lanes and the same  *)
(* map of incoming packets.                                                *)
(*                                                                         *)
(* Bytes are symbolic: byte j of the serialization of message m is the     *)
(* pair (m, j), and a byte buffer is a sequence of runs of such bytes, so  *)
(* that buffers of thousands of bytes stay small and still compare by      *)
(* content.                                                                *)
(***************************************************************************)
EXTENDS Integers, Sequences, FiniteSets, TLC

\* ---------------------------------------------------------------- bounds
\* Number of send() calls made by the producers in one behaviour.
MaxSends == 2
\* Number of stop() calls made by the owner in one behaviour.
MaxStops == 1
\* Number of send() calls made while both transports are open.
MaxUdpSends == 1
\* Number of datagrams the network drops in one behaviour.
MaxDrops == 1
\* Number of datagrams the network duplicates in one behaviour.
MaxDups == 1
\* Calls of start() on one connection.
MaxStarts == 2

\* ------------------------------------------------------ program constants
\* A chunk size of half the program's.
HalfSplit == 2000 \div 2

SPLIT_SIZE == 2000
NumLanes == 255
DefaultLane == 16
FirstId == 1

\* ----------------------------------------------------------------- inputs
Producers == {"p1", "p2"}
Consumers == {"c1", "c2"}
\* The threads that call open_udp().
Owners == {"o1", "o2"}

Msg(l) == [len |-> l, enc |-> TRUE, dec |-> TRUE]
\* A value whose codec refuses to serialize it (to_bytes returns Err).
BadEnc == [len |-> 1, enc |-> FALSE, dec |-> TRUE]
\* A value that serializes, but whose bytes the receiver's message type
\* refuses (from_bytes returns Err).
BadDec == [len |-> 3, enc |-> TRUE, dec |-> FALSE]
\* L = 0, L < chunk, L = chunk, L = k*chunk + r.
MsgLens == {0, 5, SPLIT_SIZE, 2 * SPLIT_SIZE + 1000}
\* ConnectionMessage::OpenedUdp { host }, which open_udp() sends.
OpenedUdp == Msg(9)
Messages == {Msg(l) : l \in MsgLens} \cup {BadEnc, BadDec}

\* ------------------------------------------------------------------ bytes
Min(a, b) == IF a <= b THEN a ELSE b

Run(m, from, n) == [src |-> m, from |-> from, len |-> n]

RECURSIVE BytesLen(_)
BytesLen(b) == IF b = <<>> THEN 0 ELSE Head(b).len + BytesLen(Tail(b))

\* b followed by the run r, adjacent runs of one source joined.
PushRun(b, r) ==
    IF r.len = 0 THEN b
    ELSE IF b /= <<>> /\ b[Len(b)].src = r.src
                      /\ b[Len(b)].from + b[Len(b)].len = r.from
         THEN [b EXCEPT ![Len(b)].len = @ + r.len]
         ELSE Append(b, r)

RECURSIVE AppendBytes(_, _)
AppendBytes(a, b) ==
    IF b = <<>> THEN a ELSE AppendBytes(PushRun(a, Head(b)), Tail(b))

\* The n bytes of b that start at offset pos.
RECURSIVE SliceBytes(_, _, _)
SliceBytes(b, pos, n) ==
    IF n = 0 \/ b = <<>> THEN <<>>
    ELSE IF pos >= Head(b).len
         THEN SliceBytes(Tail(b), pos - Head(b).len, n)
         ELSE LET k == Min(n, Head(b).len - pos)
              IN  AppendBytes(<<Run(Head(b).src, Head(b).from + pos, k)>>,
                              SliceBytes(Tail(b), 0, n - k))

\* Message::to_bytes: Err for a value the codec rejects.
to_bytes(m) ==
    IF ~m.enc THEN [ok |-> FALSE, bytes |-> <<>>]
    ELSE [ok |-> TRUE, bytes |-> PushRun(<<>>, Run(m, 0, m.len))]

\* Message::from_bytes: the value whose serialization the buffer holds, if
\* the buffer is the whole serialization of a value the codec accepts.
from_bytes(data) ==
    IF data = <<>> THEN [ok |-> TRUE, msg |-> Msg(0)]
    ELSE IF /\ Len(data) = 1
            /\ data[1].src.enc /\ data[1].src.dec
            /\ to_bytes(data[1].src).bytes = data
         THEN [ok |-> TRUE, msg |-> data[1].src]
         ELSE [ok |-> FALSE, msg |-> BadDec]

\* ----------------------------------------------------------------- frames
HeaderFrame(id, length) == [kind |-> "Header", id |-> id, length |-> length, data |-> <<>>]
DataFrame(id, data) == [kind |-> "Data", id |-> id, length |-> 0, data |-> data]

\* Filler of the fields that hold no frame.
NoFrame == [kind |-> "None", id |-> 0, length |-> 0, data |-> <<>>]

OutgoingPacket(bytes, id) ==
    [id |-> id, data |-> bytes, pos |-> 0, headersent |-> FALSE]

\* OutgoingPacket::generate_frame: the Header once, then Data frames of at
\* most size bytes, then SendDone.
generate_frame(p, size) ==
    IF ~p.headersent
    THEN [done |-> FALSE, frame |-> HeaderFrame(p.id, BytesLen(p.data)),
          pkt |-> [p EXCEPT !.headersent = TRUE]]
    ELSE LET remaining == BytesLen(p.data) - p.pos
             n == Min(size, remaining)
         IN  IF remaining = 0
             THEN [done |-> TRUE, frame |-> HeaderFrame(p.id, 0), pkt |-> p]
             ELSE [done |-> FALSE,
                   frame |-> DataFrame(p.id, SliceBytes(p.data, p.pos, n)),
                   pkt |-> [p EXCEPT !.pos = @ + n]]

IncomingPacket(header) ==
    [id |-> header.id, total |-> header.length, data |-> <<>>, pos |-> 0]

\* IncomingPacket::load_data_frame: the payload is written at the cursor;
\* complete when the cursor reaches the announced size.
load_data_frame(p, frame) ==
    LET n == BytesLen(frame.data)
    IN  IF p.pos + n > p.total
        THEN [ok |-> FALSE, complete |-> FALSE, pkt |-> p]
        ELSE [ok |-> TRUE, complete |-> (p.pos + n = p.total),
              pkt |-> [p EXCEPT !.data = AppendBytes(@, frame.data), !.pos = @ + n]]

\* ----------------------------------------------------------------- events
\* Filler of the fields that hold no message.
NoMessage == [len |-> 0, enc |-> FALSE, dec |-> FALSE]
\* The channel carries Result<RM, ConnectionError>.
MsgEvent(m) == [kind |-> "Msg", msg |-> m]
Disconnected == [kind |-> "Disc", msg |-> NoMessage]

\* ------------------------------------------------------------------ state
VARIABLES
    running,            \* Connection::running
    next_id,            \* Connection::next_id
    packet_out,         \* Connection::packet_out: lane -> queue, for the
                        \* lanes that hold a packet; the others are empty
    packet_out_count,   \* Connection::packet_out_count
    packet_in,          \* Connection::packet_in, id -> IncomingPacket
    send_thread,        \* Connection::send_thread, "None" or "Some"
    recv_thread,        \* Connection::recv_thread, "None" or "Some"
    chan,               \* the mpsc channel recvd_message_write -> _read
    tcp,                \* frames written to the stream and not yet read
    fault,              \* error the stream transport returns: none, reset, io
    lkId,               \* holder of the next_id mutex
    lkOut,              \* holder of the packet_out mutex
    lkCount,            \* write holder of the packet_out_count lock
    lkRead,             \* holder of the recvd_message_read mutex
    sendPc,             \* producer -> position inside send()
    sendArg,            \* producer -> message passed to send()
    swPc,               \* position of the stream send worker
    swToken,            \* park token of the stream send worker
    rwPc,               \* position of the stream receive worker
    conPc,              \* consumer -> position inside recv()
    sends,              \* number of send() calls so far
    stops,              \* number of stop() calls so far
    written,            \* history: frames written to the stream
    delivered,          \* history: events taken from the channel
    sentLog,            \* history: messages enqueued by send(), in order
    sendOnDisc,         \* history: producer -> its send() began Disconnected
    parkedAtStop,       \* history: stop() found the send worker parked
    waitingAtStop,      \* history: consumers inside recv() since a stop()
    udp,                \* Connection::udp, "None" or "Some"
    udpWire,            \* datagrams sent and not yet received
    lkUdp,              \* holder of the udp mutex
    lkIn,               \* holder of the packet_in mutex
    suPc,               \* position of the datagram send worker
    suFrame,            \* frame the datagram send worker is about to send
    ruPc,               \* position of the datagram receive worker
    rwData,             \* payload the stream receive worker is publishing
    ruData,             \* payload the datagram receive worker is publishing
    openPc,             \* owner thread -> position inside open_udp()
    udpWritten,         \* history: frames sent as datagrams
    wireDrops,          \* number of datagrams the network has dropped
    wireDups,           \* number of datagrams the network has duplicated
    completed,          \* history: payloads in the order they completed
    idLog,              \* history: ids given out by send(), in order
    tryLog,             \* history: what try_recv() found and returned
    lost,               \* history: id and kind of the datagrams dropped
    overtaken,          \* history: a datagram has overtaken an earlier one
    replaced,           \* history: ids whose packet a later Header replaced
    suToken,            \* park token of the datagram send worker
    extraPairs,         \* stream worker pairs spawned by further start() calls
    lateSpawn,          \* history: workers spawned with the running flag false
    afterStop           \* history: worker -> frames handled with the flag false

vars == <<running, next_id, packet_out, packet_out_count, packet_in,
          send_thread, recv_thread, chan, tcp, fault, lkId, lkOut, lkCount,
          lkRead, sendPc, sendArg, swPc, swToken, rwPc, conPc, sends, stops,
          written, delivered, sentLog, sendOnDisc, parkedAtStop,
          waitingAtStop, udp, udpWire, lkUdp, lkIn, suPc, suFrame, ruPc,
          rwData, ruData, openPc, udpWritten, wireDrops, wireDups, completed, idLog, tryLog, lost,
          overtaken, replaced, suToken, extraPairs, lateSpawn, afterStop>>

\* The history variables that only stop(), send() and recv() touch.
hist == <<sendOnDisc, parkedAtStop, waitingAtStop>>

\* The state of the datagram side: the transport, its workers, its wire.
udpVars == <<udp, udpWire, lkUdp, suPc, suFrame, ruPc, ruData, openPc,
             udpWritten, wireDrops, wireDups, lost, overtaken>>

\* The worker threads of the first start() and the first open_udp().
Workers == {"sw", "rw", "su", "ru"}

\* What start(), open_udp() and the workers' frame steps record.
lifeHist == <<suToken, extraPairs, lateSpawn, afterStop>>

\* The history variables of the receive side and of try_recv().
recvHist == <<completed, tryLog, replaced>>

Lanes == 0 .. (NumLanes - 1)

\* packets[i], the queue of lane i.
Lane(lanes, i) == IF i \in DOMAIN lanes THEN lanes[i] ELSE <<>>

\* The lanes with packets[i] replaced by q.
SetLane(lanes, i, q) ==
    [k \in (IF q = <<>> THEN DOMAIN lanes \ {i} ELSE DOMAIN lanes \cup {i}) |->
        IF k = i THEN q ELSE lanes[k]]

\* Connection::new_internal, but for the lanes, their counter and the id
\* counter.
InitRest ==
    /\ running = TRUE
    /\ packet_in = <<>>
    /\ send_thread = "None"
    /\ recv_thread = "None"
    /\ chan = <<>>
    /\ tcp = <<>>
    /\ fault = "none"
    /\ lkId = "none"
    /\ lkOut = "none"
    /\ lkCount = "none"
    /\ lkRead = "none"
    /\ sendPc = [p \in Producers \cup Owners |-> "idle"]
    /\ sendArg = [p \in Producers \cup Owners |-> NoMessage]
    /\ swPc = "none"
    /\ swToken = FALSE
    /\ rwPc = "none"
    /\ conPc = [c \in Consumers |-> "idle"]
    /\ sends = 0
    /\ stops = 0
    /\ written = <<>>
    /\ delivered = <<>>
    /\ sentLog = <<>>
    /\ sendOnDisc = [p \in Producers \cup Owners |-> FALSE]
    /\ parkedAtStop = FALSE
    /\ waitingAtStop = {}
    /\ udp = "None"
    /\ udpWire = <<>>
    /\ lkUdp = "none"
    /\ lkIn = "none"
    /\ suPc = "none"
    /\ suFrame = NoFrame
    /\ ruPc = "none"
    /\ rwData = <<>>
    /\ ruData = <<>>
    /\ openPc = [o \in Owners |-> "idle"]
    /\ udpWritten = <<>>
    /\ wireDrops = 0
    /\ wireDups = 0
    /\ completed = <<>>
    /\ idLog = <<>>
    /\ tryLog = {}
    /\ lost = {}
    /\ overtaken = FALSE
    /\ replaced = {}
    /\ suToken = FALSE
    /\ extraPairs = 0
    /\ lateSpawn = {}
    /\ afterStop = [w \in Workers |-> 0]

\* Connection::new_internal
Init ==
    /\ InitRest
    /\ next_id = FirstId
    /\ packet_out = <<>>
    /\ packet_out_count = 0

\* The connection counts as Disconnected once stop() has cleared the running
\* flag or a worker has met a peer-disconnect error.
IsDisconnected == ~running \/ swPc = "disc" \/ rwPc = "disc"

\* ------------------------------------------------------------- operations
\* A worker that takes the connection for running whatever the flag says.
AlwaysRunning == TRUE

\* self.running.load(Ordering::Relaxed), the test at the top of every
\* worker loop (lines 163, 215, 274 and 308).
IsRunning == running

\* Connection::start: spawns the stream receive worker and the stream send
\* worker and stores their handles.  Callers start a connection once.
Start ==
    /\ send_thread = "None"
    /\ recv_thread' = "Some"
    /\ send_thread' = "Some"
    /\ rwPc' = "top"
    /\ swPc' = "top"
    /\ UNCHANGED <<running, next_id, packet_out, packet_out_count, packet_in,
                   chan, tcp, fault, lkId, lkOut, lkCount, lkRead, sendPc,
                   sendArg, swToken, conPc, sends, stops, written, delivered,
                   sentLog>>
    /\ UNCHANGED hist
    /\ UNCHANGED <<udpVars, recvHist, lkIn, rwData, idLog>>
    /\ lateSpawn' = IF running THEN lateSpawn ELSE lateSpawn \cup {"sw", "rw"}
    /\ UNCHANGED <<suToken, extraPairs, afterStop>>

\* Connection::start called on a connection that is started already. Nothing
\* in lines 113-125 tests for that: a second pair of workers is spawned and
\* the two handles are overwritten, which detaches the first pair and leaves
\* it running. The further pairs are counted, their steps are not modelled.
StartAgain ==
    /\ send_thread = "Some"
    /\ extraPairs < MaxStarts - 1
    /\ extraPairs' = extraPairs + 1
    /\ lateSpawn' = lateSpawn
    /\ UNCHANGED <<running, next_id, packet_out, packet_out_count, packet_in,
                   send_thread, recv_thread, chan, tcp, fault, lkId, lkOut,
                   lkCount, lkRead, sendPc, sendArg, swPc, swToken, rwPc, conPc,
                   sends, stops, written, delivered, sentLog>>
    /\ UNCHANGED hist
    /\ UNCHANGED <<udpVars, recvHist, lkIn, rwData, idLog>>
    /\ UNCHANGED <<suToken, afterStop>>

\* Connection::stop: clears the running flag and puts the Disconnected
\* sentinel into the channel.
Stop ==
    /\ stops < MaxStops
    /\ stops' = stops + 1
    /\ running' = FALSE
    /\ chan' = Append(chan, Disconnected)
    /\ UNCHANGED <<next_id, packet_out, packet_out_count, packet_in,
                   send_thread, recv_thread, tcp, fault, lkId, lkOut, lkCount,
                   lkRead, sendPc, sendArg, swPc, swToken, rwPc, conPc, sends,
                   written, delivered, sentLog>>
    /\ parkedAtStop' = (parkedAtStop \/ swPc = "park")
    /\ waitingAtStop' = waitingAtStop \cup {c \in Consumers : conPc[c] /= "idle"}
    /\ UNCHANGED sendOnDisc
    /\ UNCHANGED <<udpVars, recvHist, lkIn, rwData, idLog>>
    /\ UNCHANGED lifeHist

\* A send() that queued its packet at the front of the lane.
push_front(q, pkt) == <<pkt>> \o q

\* VecDeque::push_back, as send() uses it on lane 16 (line 136).
push_back(q, pkt) == Append(q, pkt)

\* Connection::send, line 135: the caller takes the next_id mutex, which it
\* holds until send() returns.
SendLockId(p, m) ==
    /\ sendPc[p] = "idle"
    /\ sends < MaxSends
    /\ lkId = "none"
    /\ lkId' = p
    /\ sends' = sends + 1
    /\ sendPc' = [sendPc EXCEPT ![p] = "push"]
    /\ sendArg' = [sendArg EXCEPT ![p] = m]
    /\ UNCHANGED <<running, next_id, packet_out, packet_out_count, packet_in,
                   send_thread, recv_thread, chan, tcp, fault, lkOut, lkCount,
                   lkRead, swPc, swToken, rwPc, conPc, stops, written,
                   delivered, sentLog>>
    /\ sendOnDisc' = [sendOnDisc EXCEPT ![p] = IsDisconnected]
    /\ UNCHANGED <<parkedAtStop, waitingAtStop>>
    /\ UNCHANGED <<udpVars, recvHist, lkIn, rwData, idLog>>
    /\ UNCHANGED lifeHist

\* A send() that leaves the id counter where it was.
KeepId(id) == id

\* Connection::send, line 137: `*id += 1`.
AdvanceId(id) == id + 1

\* Connection::send, lines 136-137: under the packet_out mutex the message
\* is serialized (unwrap: a codec error unwinds the caller, releasing its
\* guards) and pushed to lane 16 under the current id; the id is advanced.
SendPush(p) ==
    /\ sendPc[p] = "push"
    /\ lkOut = "none"
    /\ LET b == to_bytes(sendArg[p])
       IN  IF ~b.ok
           THEN /\ sendPc' = [sendPc EXCEPT ![p] = "panicked"]
                /\ lkId' = "none"
                /\ UNCHANGED <<packet_out, next_id, sentLog, idLog>>
           ELSE /\ packet_out' = SetLane(packet_out, DefaultLane,
                                    push_back(Lane(packet_out, DefaultLane),
                                              OutgoingPacket(b.bytes, next_id)))
                /\ next_id' = AdvanceId(next_id)
                /\ sentLog' = Append(sentLog, sendArg[p])
                /\ idLog' = Append(idLog, next_id)
                /\ sendPc' = [sendPc EXCEPT ![p] = "count"]
                /\ UNCHANGED lkId
    /\ sendArg' = [sendArg EXCEPT ![p] = NoMessage]
    /\ UNCHANGED <<running, packet_out_count, packet_in, send_thread,
                   recv_thread, chan, tcp, fault, lkOut, lkCount, lkRead,
                   swPc, swToken, rwPc, conPc, sends, stops, written,
                   delivered>>
    /\ sendOnDisc' = [sendOnDisc EXCEPT ![p] = @ /\ to_bytes(sendArg[p]).ok]
    /\ UNCHANGED <<parkedAtStop, waitingAtStop>>
    /\ UNCHANGED <<udpVars, recvHist, lkIn, rwData>>
    /\ UNCHANGED lifeHist

\* A send() that leaves the outstanding counter where it was.
SkipCount(n) == n

\* Connection::send, line 139: `*p += 1`.
Increment(n) == n + 1

\* Connection::send, lines 138-139: the outstanding counter is incremented
\* under its write lock, which is held until send() returns.
SendCount(p) ==
    /\ sendPc[p] = "count"
    /\ lkCount = "none"
    /\ lkCount' = p
    /\ packet_out_count' = Increment(packet_out_count)
    /\ sendPc' = [sendPc EXCEPT ![p] = "unpark"]
    /\ UNCHANGED <<running, next_id, packet_out, packet_in, send_thread,
                   recv_thread, chan, tcp, fault, lkId, lkOut, lkRead, sendArg,
                   swPc, swToken, rwPc, conPc, sends, stops, written,
                   delivered, sentLog>>
    /\ UNCHANGED hist
    /\ UNCHANGED <<udpVars, recvHist, lkIn, rwData, idLog>>
    /\ UNCHANGED lifeHist

\* An unpark() that leaves the token as it found it.
NoUnpark(token) == token

\* Thread::unpark (line 142): makes the token of the thread available, so
\* that its next park() (or the one it is blocked in) returns.
Unpark(token) == TRUE

SwAlive == swPc \in {"top", "count", "park", "scan", "dec"}

\* Connection::send, lines 140-145: the stream send worker is unparked when
\* its handle is stored; send() returns and drops its guards.
SendUnpark(p) ==
    /\ sendPc[p] = "unpark"
    /\ swToken' = IF send_thread = "Some" /\ extraPairs = 0 /\ SwAlive
                  THEN Unpark(swToken) ELSE swToken
    /\ lkCount' = "none"
    /\ lkId' = "none"
    /\ sendPc' = [sendPc EXCEPT ![p] = "idle"]
    /\ UNCHANGED <<running, next_id, packet_out, packet_out_count, packet_in,
                   send_thread, recv_thread, chan, tcp, fault, lkOut, lkRead,
                   sendArg, swPc, rwPc, conPc, sends, stops, written,
                   delivered, sentLog>>
    /\ sendOnDisc' = [sendOnDisc EXCEPT ![p] = FALSE]
    /\ UNCHANGED <<parkedAtStop, waitingAtStop>>
    /\ UNCHANGED <<udpVars, recvHist, lkIn, rwData, idLog>>
    /\ UNCHANGED lifeHist

\* Connection::send_worker, lines 163-165: the running flag is read at the
\* top of every iteration.
SwCheckRunning ==
    /\ swPc = "top"
    /\ swPc' = IF IsRunning THEN "count" ELSE "exit"
    /\ UNCHANGED <<running, next_id, packet_out, packet_out_count, packet_in,
                   send_thread, recv_thread, chan, tcp, fault, lkId, lkOut,
                   lkCount, lkRead, sendPc, sendArg, swToken, rwPc, conPc,
                   sends, stops, written, delivered, sentLog>>
    /\ UNCHANGED hist
    /\ UNCHANGED <<udpVars, recvHist, lkIn, rwData, idLog>>
    /\ UNCHANGED lifeHist

\* Connection::send_worker, line 166: the counter is read under its read
\* lock; zero sends the worker to thread::park().
SwCheckCount ==
    /\ swPc = "count"
    /\ lkCount = "none"
    /\ swPc' = IF packet_out_count = 0 THEN "park" ELSE "scan"
    /\ UNCHANGED <<running, next_id, packet_out, packet_out_count, packet_in,
                   send_thread, recv_thread, chan, tcp, fault, lkId, lkOut,
                   lkCount, lkRead, sendPc, sendArg, swToken, rwPc, conPc,
                   sends, stops, written, delivered, sentLog>>
    /\ UNCHANGED hist
    /\ UNCHANGED <<udpVars, recvHist, lkIn, rwData, idLog>>
    /\ UNCHANGED lifeHist

\* Connection::send_worker, lines 167-168: park() returns once the token is
\* set, and consumes it.
SwUnparked ==
    /\ swPc = "park"
    /\ swToken
    /\ swToken' = FALSE
    /\ swPc' = "top"
    /\ UNCHANGED <<running, next_id, packet_out, packet_out_count, packet_in,
                   send_thread, recv_thread, chan, tcp, fault, lkId, lkOut,
                   lkCount, lkRead, sendPc, sendArg, rwPc, conPc, sends, stops,
                   written, delivered, sentLog>>
    /\ UNCHANGED hist
    /\ UNCHANGED <<udpVars, recvHist, lkIn, rwData, idLog>>
    /\ UNCHANGED lifeHist

\* thread::park() may return without the token (a spurious wake-up).
SwSpuriousWake ==
    /\ swPc = "park"
    /\ ~swToken
    /\ swPc' = "top"
    /\ UNCHANGED <<running, next_id, packet_out, packet_out_count, packet_in,
                   send_thread, recv_thread, chan, tcp, fault, lkId, lkOut,
                   lkCount, lkRead, sendPc, sendArg, swToken, rwPc, conPc,
                   sends, stops, written, delivered, sentLog>>
    /\ UNCHANGED hist
    /\ UNCHANGED <<udpVars, recvHist, lkIn, rwData, idLog>>
    /\ UNCHANGED lifeHist

NonEmptyLanes(lanes) == {i \in DOMAIN lanes \cap Lanes : Len(lanes[i]) /= 0}
\* A scan that stops at the last lane that holds a packet.
LastLane(lanes) == CHOOSE i \in NonEmptyLanes(lanes) :
                       \A j \in NonEmptyLanes(lanes) : i >= j

\* The lane the scan `for i in 0..255` stops at.
FirstLane(lanes) == CHOOSE i \in NonEmptyLanes(lanes) :
                        \A j \in NonEmptyLanes(lanes) : i <= j

\* The scan of send_worker (lines 172-177) finds a head packet that yields
\* a frame, not SendDone.
SendsFrame(lanes) ==
    /\ NonEmptyLanes(lanes) /= {}
    /\ ~generate_frame(Lane(lanes, FirstLane(lanes))[1], SPLIT_SIZE).done

\* Tcp::send on the stream: Ok, or the error of the broken stream.
TcpSend == fault

\* Connection::send_worker, lines 171-209: under the packet_out mutex the
\* head packet of the first non-empty lane yields its next frame, which is
\* written to the stream; at SendDone the packet is popped and the worker
\* goes on to the counter, still holding the mutex.
SwScan ==
    /\ swPc = "scan"
    /\ lkOut = "none"
    /\ IF NonEmptyLanes(packet_out) = {}
       THEN /\ swPc' = "top"
            /\ UNCHANGED <<packet_out, tcp, written, chan, lkOut>>
       ELSE LET i == FirstLane(packet_out)
                g == generate_frame(Lane(packet_out, i)[1], SPLIT_SIZE)
            IN  IF g.done
                THEN /\ packet_out' = SetLane(packet_out, i, Tail(Lane(packet_out, i)))
                     /\ lkOut' = "sw"
                     /\ swPc' = "dec"
                     /\ UNCHANGED <<tcp, written, chan>>
                ELSE /\ packet_out' = SetLane(packet_out, i,
                                            [Lane(packet_out, i) EXCEPT ![1] = g.pkt])
                     /\ UNCHANGED lkOut
                     /\ CASE TcpSend = "none" ->
                               /\ tcp' = Append(tcp, g.frame)
                               /\ written' = Append(written, g.frame)
                               /\ swPc' = "top"
                               /\ UNCHANGED chan
                          [] TcpSend = "codec" ->
                               /\ swPc' = "top"
                               /\ UNCHANGED <<tcp, written, chan>>
                          [] TcpSend = "reset" ->
                               /\ chan' = Append(chan, Disconnected)
                               /\ swPc' = "disc"
                               /\ UNCHANGED <<tcp, written>>
                          [] OTHER ->
                               /\ swPc' = "panic_io"
                               /\ UNCHANGED <<tcp, written, chan>>
    /\ UNCHANGED <<running, next_id, packet_out_count, packet_in, send_thread,
                   recv_thread, lkId, lkCount, lkRead, sendPc, sendArg,
                   swToken, rwPc, conPc, sends, stops, delivered, sentLog>>
    /\ UNCHANGED hist
    /\ UNCHANGED <<udpVars, recvHist, lkIn, rwData, idLog>>
    /\ afterStop' = IF running \/ written' = written THEN afterStop
                    ELSE [afterStop EXCEPT !["sw"] = @ + 1]
    /\ UNCHANGED <<suToken, extraPairs, lateSpawn>>
    /\ fault' = IF fault = "codec" /\ SendsFrame(packet_out) THEN "none" ELSE fault

\* A worker that pops a packet and leaves the counter where it was.
KeepCount(n) == n

\* Connection::send_worker, line 203, and send_worker_udp, line 296:
\* `*p -= 1` on the outstanding counter.
Decrement(n) == n - 1

\* Connection::send_worker, lines 202-203: the counter is decremented under
\* its write lock; both guards are dropped at the end of the iteration.
SwDec ==
    /\ swPc = "dec"
    /\ lkCount = "none"
    /\ packet_out_count' = Decrement(packet_out_count)
    /\ lkOut' = "none"
    /\ swPc' = "top"
    /\ UNCHANGED <<running, next_id, packet_out, packet_in, send_thread,
                   recv_thread, chan, tcp, fault, lkId, lkCount, lkRead, sendPc,
                   sendArg, swToken, rwPc, conPc, sends, stops, written,
                   delivered, sentLog>>
    /\ UNCHANGED hist
    /\ UNCHANGED <<udpVars, recvHist, lkIn, rwData, idLog>>
    /\ UNCHANGED lifeHist

\* Connection::recv_worker, lines 215-217.
RwCheckRunning ==
    /\ rwPc = "top"
    /\ rwPc' = IF IsRunning THEN "recv" ELSE "exit"
    /\ UNCHANGED <<running, next_id, packet_out, packet_out_count, packet_in,
                   send_thread, recv_thread, chan, tcp, fault, lkId, lkOut,
                   lkCount, lkRead, sendPc, sendArg, swPc, swToken, conPc,
                   sends, stops, written, delivered, sentLog>>
    /\ UNCHANGED hist
    /\ UNCHANGED <<udpVars, recvHist, lkIn, rwData, idLog>>
    /\ UNCHANGED lifeHist

\* The packet_in guard, once the mutex was given up at completion.
DropGuard(w) == "none"

\* The packet_in guard `packets` of the Data arm (lines 228 and 322) lives
\* to the end of the arm: the worker still holds the mutex while it puts
\* the message into the channel.
KeepGuard(w) == w

\* A map insert that keeps the entry the key already has.
InsertIfAbsent(m, id, pkt) ==
    [k \in DOMAIN m \cup {id} |-> IF k \in DOMAIN m THEN m[k] ELSE pkt]

\* HashMap::insert, lines 225 and 319: the entry of the key is replaced.
Insert(m, id, pkt) ==
    [k \in DOMAIN m \cup {id} |-> IF k = id THEN pkt ELSE m[k]]

\* The match on a received frame, lines 221-239 and 315-333, on the map m.
\* A Header stores a fresh IncomingPacket under its id.  A Data frame is
\* loaded into the packet of its id: unwrap() unwinds the worker when the
\* map has no such packet, load_data_frame when the payload does not fit.
Absorbed(m, frame) ==
    IF frame.kind = "Header"
    THEN [out |-> "top", data |-> <<>>,
          pin |-> Insert(m, frame.id, IncomingPacket(frame))]
    ELSE IF frame.id \notin DOMAIN m
         THEN [out |-> "panic_unwrap", data |-> <<>>, pin |-> m]
         ELSE LET l == load_data_frame(m[frame.id], frame)
              IN  IF ~l.ok
                  THEN [out |-> "panic_frame", data |-> <<>>, pin |-> m]
                  ELSE [out |-> IF l.complete THEN "publish" ELSE "top",
                        data |-> IF l.complete THEN l.pkt.data ELSE <<>>,
                        pin |-> [m EXCEPT ![frame.id] = l.pkt]]

\* The ids whose packet the frame replaces: a Header of an id in the map.
Replaces(m, frame) ==
    IF frame.kind = "Header" /\ frame.id \in DOMAIN m THEN {frame.id} ELSE {}

\* Connection::recv_worker, lines 218-234: one frame is read from the
\* stream and matched under the packet_in mutex.  When a Data frame
\* completes its packet the worker goes on to publish the payload.
RwFrame ==
    /\ rwPc = "recv"
    /\ tcp /= <<>>
    /\ lkIn = "none"
    /\ tcp' = Tail(tcp)
    /\ LET a == Absorbed(packet_in, Head(tcp))
       IN  /\ packet_in' = a.pin
           /\ rwPc' = a.out
           /\ rwData' = a.data
           /\ lkIn' = IF a.out = "publish" THEN KeepGuard("rw") ELSE "none"
           /\ completed' = IF a.out = "publish" THEN Append(completed, a.data)
                           ELSE completed
    /\ replaced' = replaced \cup Replaces(packet_in, Head(tcp))
    /\ UNCHANGED <<running, next_id, packet_out, packet_out_count,
                   send_thread, recv_thread, chan, fault, lkId, lkOut, lkCount,
                   lkRead, sendPc, sendArg, swPc, swToken, conPc, sends, stops,
                   written, delivered, sentLog>>
    /\ UNCHANGED hist
    /\ UNCHANGED <<udpVars, tryLog, idLog>>
    /\ afterStop' = IF running THEN afterStop
                    ELSE [afterStop EXCEPT !["rw"] = @ + 1]
    /\ UNCHANGED <<suToken, extraPairs, lateSpawn>>

\* Connection::recv_worker, lines 235-238: the payload is deserialized
\* (unwrap: an undecodable payload unwinds the worker) and the message is
\* put into the channel; the guards are dropped at the end of the arm.
RwPublish ==
    /\ rwPc = "publish"
    /\ LET d == from_bytes(rwData)
       IN  IF d.ok
           THEN /\ chan' = Append(chan, MsgEvent(d.msg))
                /\ rwPc' = "top"
           ELSE /\ rwPc' = "panic_decode"
                /\ UNCHANGED chan
    /\ lkIn' = IF lkIn = "rw" THEN "none" ELSE lkIn
    /\ rwData' = <<>>
    /\ UNCHANGED <<running, next_id, packet_out, packet_out_count, packet_in,
                   send_thread, recv_thread, tcp, fault, lkId, lkOut, lkCount,
                   lkRead, sendPc, sendArg, swPc, swToken, conPc, sends, stops,
                   written, delivered, sentLog>>
    /\ UNCHANGED hist
    /\ UNCHANGED <<udpVars, recvHist, idLog>>
    /\ UNCHANGED lifeHist

\* Connection::recv_worker, lines 242-267: Tcp::recv returns an error.  A
\* reset, aborted or refused connection puts Disconnected into the channel
\* and leaves the loop; any other I/O error panics; an error that is not a
\* NetworkErr is discarded (line 265) and the loop goes on.
RwError ==
    /\ rwPc = "recv"
    /\ fault /= "none"
    /\ CASE fault = "reset" ->
              /\ chan' = Append(chan, Disconnected)
              /\ rwPc' = "disc"
         [] fault = "codec" ->
              /\ rwPc' = "top"
              /\ UNCHANGED chan
         [] OTHER ->
              /\ rwPc' = "panic_io"
              /\ UNCHANGED chan
    /\ fault' = IF fault = "codec" THEN "none" ELSE fault
    /\ UNCHANGED <<running, next_id, packet_out, packet_out_count, packet_in,
                   send_thread, recv_thread, tcp, lkId, lkOut, lkCount,
                   lkRead, sendPc, sendArg, swPc, swToken, conPc, sends, stops,
                   written, delivered, sentLog>>
    /\ UNCHANGED hist
    /\ UNCHANGED <<udpVars, recvHist, lkIn, rwData, idLog>>
    /\ UNCHANGED lifeHist

\* Connection::recv, line 155: a consumer calls recv().
RecvCall(c) ==
    /\ conPc[c] = "idle"
    /\ conPc' = [conPc EXCEPT ![c] = "lock"]
    /\ UNCHANGED <<running, next_id, packet_out, packet_out_count, packet_in,
                   send_thread, recv_thread, chan, tcp, fault, lkId, lkOut,
                   lkCount, lkRead, sendPc, sendArg, swPc, swToken, rwPc,
                   sends, stops, written, delivered, sentLog>>
    /\ UNCHANGED hist
    /\ UNCHANGED <<udpVars, recvHist, lkIn, rwData, idLog>>
    /\ UNCHANGED lifeHist

\* Connection::recv, line 155: the recvd_message_read mutex is taken and
\* held while the caller blocks in the channel's recv().
RecvLock(c) ==
    /\ conPc[c] = "lock"
    /\ lkRead = "none"
    /\ lkRead' = c
    /\ conPc' = [conPc EXCEPT ![c] = "recv"]
    /\ UNCHANGED <<running, next_id, packet_out, packet_out_count, packet_in,
                   send_thread, recv_thread, chan, tcp, fault, lkId, lkOut,
                   lkCount, sendPc, sendArg, swPc, swToken, rwPc, sends, stops,
                   written, delivered, sentLog>>
    /\ UNCHANGED hist
    /\ UNCHANGED <<udpVars, recvHist, lkIn, rwData, idLog>>
    /\ UNCHANGED lifeHist

\* Connection::recv, lines 155-158: the channel hands over its next event
\* and recv() returns, Ok(msg) for a message and Err(()) otherwise.
RecvReturn(c) ==
    /\ conPc[c] = "recv"
    /\ chan /= <<>>
    /\ chan' = Tail(chan)
    /\ delivered' = Append(delivered, Head(chan))
    /\ lkRead' = "none"
    /\ conPc' = [conPc EXCEPT ![c] = "idle"]
    /\ UNCHANGED <<running, next_id, packet_out, packet_out_count, packet_in,
                   send_thread, recv_thread, tcp, fault, lkId, lkOut, lkCount,
                   sendPc, sendArg, swPc, swToken, rwPc, sends, stops, written,
                   sentLog>>
    /\ waitingAtStop' = waitingAtStop \ {c}
    /\ UNCHANGED <<sendOnDisc, parkedAtStop>>
    /\ UNCHANGED <<udpVars, recvHist, lkIn, rwData, idLog>>
    /\ UNCHANGED lifeHist

\* The stream breaks: from now on Tcp::send and Tcp::recv return an error,
\* of the peer-disconnect class (reset) or another I/O error (io).  Or the
\* next frame handed to Tcp::send or read by Tcp::recv fails in the frame
\* codec (codec): an error that is not a NetworkErr, for that frame only.
Fault(k) ==
    /\ fault = "none"
    /\ fault' = k
    /\ UNCHANGED <<running, next_id, packet_out, packet_out_count, packet_in,
                   send_thread, recv_thread, chan, tcp, lkId, lkOut, lkCount,
                   lkRead, sendPc, sendArg, swPc, swToken, rwPc, conPc, sends,
                   stops, written, delivered, sentLog>>
    /\ UNCHANGED hist
    /\ UNCHANGED <<udpVars, recvHist, lkIn, rwData, idLog>>
    /\ UNCHANGED lifeHist

\* ------------------------------------------------------- datagram transport
\* An open_udp() that does not look for an installed transport.
NoUdpTest(u) == FALSE

\* Connection::open_udp, line 94: is a datagram transport installed?
HasUdp(u) == u /= "None"

\* Connection::open_udp, lines 94-96: the udp mutex is taken for the test;
\* a transport that is already there makes the call panic.
OpenCheck(o) ==
    /\ openPc[o] = "idle"
    /\ lkUdp = "none"
    /\ openPc' = [openPc EXCEPT ![o] = IF HasUdp(udp) THEN "panicked" ELSE "install"]
    /\ UNCHANGED <<running, next_id, packet_out, packet_out_count, packet_in,
                   send_thread, recv_thread, chan, tcp, fault, lkId, lkOut,
                   lkCount, lkRead, sendPc, sendArg, swPc, swToken, rwPc, conPc,
                   sends, stops, written, delivered, sentLog>>
    /\ UNCHANGED hist
    /\ UNCHANGED <<udp, udpWire, lkUdp, suPc, suFrame, ruPc, ruData,
                   udpWritten, wireDrops, wireDups, lost, overtaken>>
    /\ UNCHANGED <<recvHist, lkIn, rwData, idLog>>
    /\ UNCHANGED lifeHist

\* Connection::open_udp, line 97: the udp mutex is taken again and the new
\* transport is stored.
OpenInstall(o) ==
    /\ openPc[o] = "install"
    /\ lkUdp = "none"
    /\ udp' = o
    /\ openPc' = [openPc EXCEPT ![o] = "send"]
    /\ UNCHANGED <<running, next_id, packet_out, packet_out_count, packet_in,
                   send_thread, recv_thread, chan, tcp, fault, lkId, lkOut,
                   lkCount, lkRead, sendPc, sendArg, swPc, swToken, rwPc, conPc,
                   sends, stops, written, delivered, sentLog>>
    /\ UNCHANGED hist
    /\ UNCHANGED <<udpWire, lkUdp, suPc, suFrame, ruPc, ruData, udpWritten,
                   wireDrops, wireDups, lost, overtaken>>
    /\ UNCHANGED <<recvHist, lkIn, rwData, idLog>>
    /\ UNCHANGED lifeHist

\* Connection::open_udp, line 98: the caller enters send() with the
\* OpenedUdp message and takes the next_id mutex.
OpenSend(o) ==
    /\ openPc[o] = "send"
    /\ sendPc[o] = "idle"
    /\ lkId = "none"
    /\ lkId' = o
    /\ sendPc' = [sendPc EXCEPT ![o] = "push"]
    /\ sendArg' = [sendArg EXCEPT ![o] = OpenedUdp]
    /\ openPc' = [openPc EXCEPT ![o] = "sending"]
    /\ UNCHANGED <<running, next_id, packet_out, packet_out_count, packet_in,
                   send_thread, recv_thread, chan, tcp, fault, lkOut, lkCount,
                   lkRead, swPc, swToken, rwPc, conPc, sends, stops, written,
                   delivered, sentLog>>
    /\ sendOnDisc' = [sendOnDisc EXCEPT ![o] = IsDisconnected]
    /\ UNCHANGED <<parkedAtStop, waitingAtStop>>
    /\ UNCHANGED <<udp, udpWire, lkUdp, suPc, suFrame, ruPc, ruData,
                   udpWritten, wireDrops, wireDups, lost, overtaken>>
    /\ UNCHANGED <<recvHist, lkIn, rwData, idLog>>
    /\ UNCHANGED lifeHist

\* Connection::open_udp, lines 100-110: send() has returned; the datagram
\* receive worker and the datagram send worker are spawned.  ruPc and suPc
\* follow the first pair of workers spawned.
OpenSpawn(o) ==
    /\ openPc[o] = "sending"
    /\ sendPc[o] = "idle"
    /\ openPc' = [openPc EXCEPT ![o] = "done"]
    /\ ruPc' = IF ruPc = "none" THEN "top" ELSE ruPc
    /\ suPc' = IF suPc = "none" THEN "top" ELSE suPc
    /\ UNCHANGED <<running, next_id, packet_out, packet_out_count, packet_in,
                   send_thread, recv_thread, chan, tcp, fault, lkId, lkOut,
                   lkCount, lkRead, sendPc, sendArg, swPc, swToken, rwPc, conPc,
                   sends, stops, written, delivered, sentLog>>
    /\ UNCHANGED hist
    /\ UNCHANGED <<udp, udpWire, lkUdp, suFrame, ruData, udpWritten,
                   wireDrops, wireDups, lost, overtaken>>
    /\ UNCHANGED <<recvHist, lkIn, rwData, idLog>>
    /\ lateSpawn' = IF running \/ ruPc /= "none" THEN lateSpawn
                    ELSE lateSpawn \cup {"su", "ru"}
    /\ UNCHANGED <<suToken, extraPairs, afterStop>>

\* Connection::send_worker_udp, lines 274-276.
SuCheckRunning ==
    /\ suPc = "top"
    /\ suPc' = IF IsRunning THEN "count" ELSE "exit"
    /\ UNCHANGED <<running, next_id, packet_out, packet_out_count, packet_in,
                   send_thread, recv_thread, chan, tcp, fault, lkId, lkOut,
                   lkCount, lkRead, sendPc, sendArg, swPc, swToken, rwPc, conPc,
                   sends, stops, written, delivered, sentLog>>
    /\ UNCHANGED hist
    /\ UNCHANGED <<udp, udpWire, lkUdp, suFrame, ruPc, ruData, openPc,
                   udpWritten, wireDrops, wireDups, lost, overtaken>>
    /\ UNCHANGED <<recvHist, lkIn, rwData, idLog>>
    /\ UNCHANGED lifeHist

\* Connection::send_worker_udp, lines 277-280: zero outstanding packets
\* send the worker to thread::park().
SuCheckCount ==
    /\ suPc = "count"
    /\ lkCount = "none"
    /\ suPc' = IF packet_out_count = 0 THEN "park" ELSE "scan"
    /\ UNCHANGED <<running, next_id, packet_out, packet_out_count, packet_in,
                   send_thread, recv_thread, chan, tcp, fault, lkId, lkOut,
                   lkCount, lkRead, sendPc, sendArg, swPc, swToken, rwPc, conPc,
                   sends, stops, written, delivered, sentLog>>
    /\ UNCHANGED hist
    /\ UNCHANGED <<udp, udpWire, lkUdp, suFrame, ruPc, ruData, openPc,
                   udpWritten, wireDrops, wireDups, lost, overtaken>>
    /\ UNCHANGED <<recvHist, lkIn, rwData, idLog>>
    /\ UNCHANGED lifeHist

\* No call unparks the datagram send worker (send() unparks send_thread
\* only): its park() returns on a spurious wake-up.
SuSpuriousWake ==
    /\ suPc = "park"
    /\ suPc' = "top"
    /\ UNCHANGED <<running, next_id, packet_out, packet_out_count, packet_in,
                   send_thread, recv_thread, chan, tcp, fault, lkId, lkOut,
                   lkCount, lkRead, sendPc, sendArg, swPc, swToken, rwPc, conPc,
                   sends, stops, written, delivered, sentLog>>
    /\ UNCHANGED hist
    /\ UNCHANGED <<udp, udpWire, lkUdp, suFrame, ruPc, ruData, openPc,
                   udpWritten, wireDrops, wireDups, lost, overtaken>>
    /\ UNCHANGED <<recvHist, lkIn, rwData, idLog>>
    /\ UNCHANGED lifeHist

\* Connection::send_worker_udp, lines 282-287 and 293-294: under the
\* packet_out mutex the head packet of the first non-empty lane yields its
\* next frame, or is popped at SendDone.  The mutex stays held.
SuScan ==
    /\ suPc = "scan"
    /\ lkOut = "none"
    /\ IF NonEmptyLanes(packet_out) = {}
       THEN /\ suPc' = "top"
            /\ UNCHANGED <<packet_out, suFrame, lkOut>>
       ELSE LET i == FirstLane(packet_out)
                g == generate_frame(Lane(packet_out, i)[1], SPLIT_SIZE)
            IN  /\ lkOut' = "su"
                /\ IF g.done
                   THEN /\ packet_out' = SetLane(packet_out, i, Tail(Lane(packet_out, i)))
                        /\ suPc' = "dec"
                        /\ UNCHANGED suFrame
                   ELSE /\ packet_out' = SetLane(packet_out, i,
                                               [Lane(packet_out, i) EXCEPT ![1] = g.pkt])
                        /\ suFrame' = g.frame
                        /\ suPc' = "send"
    /\ UNCHANGED <<running, next_id, packet_out_count, packet_in, send_thread,
                   recv_thread, chan, tcp, fault, lkId, lkCount, lkRead, sendPc,
                   sendArg, swPc, swToken, rwPc, conPc, sends, stops, written,
                   delivered, sentLog>>
    /\ UNCHANGED hist
    /\ UNCHANGED <<udp, udpWire, lkUdp, ruPc, ruData, openPc, udpWritten,
                   wireDrops, wireDups, lost, overtaken>>
    /\ UNCHANGED <<recvHist, lkIn, rwData, idLog>>
    /\ UNCHANGED lifeHist

\* Connection::send_worker_udp, lines 290-291: the udp mutex is taken and
\* the frame is sent as one datagram; the guards are dropped at the end of
\* the iteration.
SuSend ==
    /\ suPc = "send"
    /\ lkUdp = "none"
    /\ udpWire' = Append(udpWire, suFrame)
    /\ udpWritten' = Append(udpWritten, suFrame)
    /\ suFrame' = NoFrame
    /\ lkOut' = "none"
    /\ suPc' = "top"
    /\ UNCHANGED <<running, next_id, packet_out, packet_out_count, packet_in,
                   send_thread, recv_thread, chan, tcp, fault, lkId, lkCount,
                   lkRead, sendPc, sendArg, swPc, swToken, rwPc, conPc, sends,
                   stops, written, delivered, sentLog>>
    /\ UNCHANGED hist
    /\ UNCHANGED <<udp, lkUdp, ruPc, ruData, openPc, wireDrops, wireDups, lost, overtaken>>
    /\ UNCHANGED <<recvHist, lkIn, rwData, idLog>>
    /\ afterStop' = IF running THEN afterStop
                    ELSE [afterStop EXCEPT !["su"] = @ + 1]
    /\ UNCHANGED <<suToken, extraPairs, lateSpawn>>

\* Connection::send_worker_udp, lines 295-296.
SuDec ==
    /\ suPc = "dec"
    /\ lkCount = "none"
    /\ packet_out_count' = Decrement(packet_out_count)
    /\ lkOut' = "none"
    /\ suPc' = "top"
    /\ UNCHANGED <<running, next_id, packet_out, packet_in, send_thread,
                   recv_thread, chan, tcp, fault, lkId, lkCount, lkRead, sendPc,
                   sendArg, swPc, swToken, rwPc, conPc, sends, stops, written,
                   delivered, sentLog>>
    /\ UNCHANGED hist
    /\ UNCHANGED <<udp, udpWire, lkUdp, suFrame, ruPc, ruData, openPc,
                   udpWritten, wireDrops, wireDups, lost, overtaken>>
    /\ UNCHANGED <<recvHist, lkIn, rwData, idLog>>
    /\ UNCHANGED lifeHist

\* Connection::recv_worker_udp, lines 308-310.
RuCheckRunning ==
    /\ ruPc = "top"
    /\ ruPc' = IF IsRunning THEN "lock" ELSE "exit"
    /\ UNCHANGED <<running, next_id, packet_out, packet_out_count, packet_in,
                   send_thread, recv_thread, chan, tcp, fault, lkId, lkOut,
                   lkCount, lkRead, sendPc, sendArg, swPc, swToken, rwPc, conPc,
                   sends, stops, written, delivered, sentLog>>
    /\ UNCHANGED hist
    /\ UNCHANGED <<udp, udpWire, lkUdp, suPc, suFrame, ruData, openPc,
                   udpWritten, wireDrops, wireDups, lost, overtaken>>
    /\ UNCHANGED <<recvHist, lkIn, rwData, idLog>>
    /\ UNCHANGED lifeHist

\* Connection::recv_worker_udp, lines 311-312: the udp mutex is taken and
\* held while the worker waits for a datagram.
RuLock ==
    /\ ruPc = "lock"
    /\ lkUdp = "none"
    /\ lkUdp' = "ru"
    /\ ruPc' = "recv"
    /\ UNCHANGED <<running, next_id, packet_out, packet_out_count, packet_in,
                   send_thread, recv_thread, chan, tcp, fault, lkId, lkOut,
                   lkCount, lkRead, sendPc, sendArg, swPc, swToken, rwPc, conPc,
                   sends, stops, written, delivered, sentLog>>
    /\ UNCHANGED hist
    /\ UNCHANGED <<udp, udpWire, suPc, suFrame, ruData, openPc, udpWritten,
                   wireDrops, wireDups, lost, overtaken>>
    /\ UNCHANGED <<recvHist, lkIn, rwData, idLog>>
    /\ UNCHANGED lifeHist

\* The sequence q without its i-th element.
RemoveAt(q, i) == SubSeq(q, 1, i - 1) \o SubSeq(q, i + 1, Len(q))

\* Connection::recv_worker_udp, lines 312-328: the i-th datagram in flight
\* arrives (datagrams may overtake each other) and is matched under the
\* packet_in mutex, as on the stream.  The udp guard is dropped at the end
\* of the iteration, or when the worker unwinds.
RuFrame(i) ==
    /\ ruPc = "recv"
    /\ i \in DOMAIN udpWire
    /\ lkIn = "none"
    /\ udpWire' = RemoveAt(udpWire, i)
    /\ LET a == Absorbed(packet_in, udpWire[i])
       IN  /\ packet_in' = a.pin
           /\ ruPc' = a.out
           /\ ruData' = a.data
           /\ lkIn' = IF a.out = "publish" THEN KeepGuard("ru") ELSE "none"
           /\ lkUdp' = IF a.out = "publish" THEN "ru" ELSE "none"
           /\ completed' = IF a.out = "publish" THEN Append(completed, a.data)
                           ELSE completed
    /\ replaced' = replaced \cup Replaces(packet_in, udpWire[i])
    /\ overtaken' = (overtaken \/ i > 1)
    /\ UNCHANGED <<running, next_id, packet_out, packet_out_count,
                   send_thread, recv_thread, chan, tcp, fault, lkId, lkOut,
                   lkCount, lkRead, sendPc, sendArg, swPc, swToken, rwPc, conPc,
                   sends, stops, written, delivered, sentLog>>
    /\ UNCHANGED hist
    /\ UNCHANGED <<udp, suPc, suFrame, openPc, udpWritten, wireDrops,
                   wireDups, lost>>
    /\ UNCHANGED <<tryLog, rwData, idLog>>
    /\ afterStop' = IF running THEN afterStop
                    ELSE [afterStop EXCEPT !["ru"] = @ + 1]
    /\ UNCHANGED <<suToken, extraPairs, lateSpawn>>

\* Connection::recv_worker_udp, lines 329-332: the payload is deserialized
\* (unwrap) and the message is put into the channel; the guards are dropped
\* at the end of the iteration.
RuPublish ==
    /\ ruPc = "publish"
    /\ LET d == from_bytes(ruData)
       IN  IF d.ok
           THEN /\ chan' = Append(chan, MsgEvent(d.msg))
                /\ ruPc' = "top"
           ELSE /\ ruPc' = "panic_decode"
                /\ UNCHANGED chan
    /\ lkIn' = IF lkIn = "ru" THEN "none" ELSE lkIn
    /\ lkUdp' = "none"
    /\ ruData' = <<>>
    /\ UNCHANGED <<running, next_id, packet_out, packet_out_count, packet_in,
                   send_thread, recv_thread, tcp, fault, lkId, lkOut, lkCount,
                   lkRead, sendPc, sendArg, swPc, swToken, rwPc, conPc, sends,
                   stops, written, delivered, sentLog>>
    /\ UNCHANGED hist
    /\ UNCHANGED <<udp, udpWire, suPc, suFrame, openPc, udpWritten,
                   wireDrops, wireDups, lost, overtaken>>
    /\ UNCHANGED <<recvHist, rwData, idLog>>
    /\ UNCHANGED lifeHist

\* The network loses the i-th datagram in flight.
UdpDrop(i) ==
    /\ i \in DOMAIN udpWire
    /\ wireDrops < MaxDrops
    /\ wireDrops' = wireDrops + 1
    /\ udpWire' = RemoveAt(udpWire, i)
    /\ lost' = lost \cup {[id |-> udpWire[i].id, kind |-> udpWire[i].kind]}
    /\ UNCHANGED <<running, next_id, packet_out, packet_out_count, packet_in,
                   send_thread, recv_thread, chan, tcp, fault, lkId, lkOut,
                   lkCount, lkRead, sendPc, sendArg, swPc, swToken, rwPc, conPc,
                   sends, stops, written, delivered, sentLog>>
    /\ UNCHANGED hist
    /\ UNCHANGED <<udp, lkUdp, suPc, suFrame, ruPc, ruData, openPc,
                   udpWritten, wireDups, overtaken>>
    /\ UNCHANGED <<recvHist, lkIn, rwData, idLog>>
    /\ UNCHANGED lifeHist

\* The network delivers the i-th datagram in flight twice: the copy comes
\* after everything that is in flight now.
UdpDup(i) ==
    /\ i \in DOMAIN udpWire
    /\ wireDups < MaxDups
    /\ wireDups' = wireDups + 1
    /\ udpWire' = Append(udpWire, udpWire[i])
    /\ UNCHANGED <<running, next_id, packet_out, packet_out_count, packet_in,
                   send_thread, recv_thread, chan, tcp, fault, lkId, lkOut,
                   lkCount, lkRead, sendPc, sendArg, swPc, swToken, rwPc, conPc,
                   sends, stops, written, delivered, sentLog>>
    /\ UNCHANGED hist
    /\ UNCHANGED <<udp, lkUdp, suPc, suFrame, ruPc, ruData, openPc,
                   udpWritten, wireDrops, lost, overtaken>>
    /\ UNCHANGED <<recvHist, lkIn, rwData, idLog>>
    /\ UNCHANGED lifeHist

\* Connection::try_recv, lines 147-152: the recvd_message_read mutex is
\* taken for a non-blocking read of the channel; a message gives Ok(msg),
\* everything else Err(()).
TryRecvResult(r) == IF r.kind = "Msg" THEN "Ok" ELSE "Err"

\* mpsc::Receiver::try_recv: the next event, or Empty.
ChannelTryRecv(q) == IF q = <<>> THEN [kind |-> "Empty", msg |-> NoMessage] ELSE Head(q)

TryRecv(c) ==
    /\ conPc[c] = "idle"
    /\ lkRead = "none"
    /\ LET r == ChannelTryRecv(chan)
       IN  /\ tryLog' = tryLog \cup {[found |-> r.kind, live |-> running,
                                        returned |-> TryRecvResult(r)]}
           /\ chan' = IF chan = <<>> THEN chan ELSE Tail(chan)
           /\ delivered' = IF chan = <<>> THEN delivered ELSE Append(delivered, r)
    /\ UNCHANGED <<running, next_id, packet_out, packet_out_count, packet_in,
                   send_thread, recv_thread, tcp, fault, lkId, lkOut, lkCount,
                   lkRead, sendPc, sendArg, swPc, swToken, rwPc, conPc, sends,
                   stops, written, sentLog>>
    /\ UNCHANGED hist
    /\ UNCHANGED udpVars
    /\ UNCHANGED <<completed, replaced, lkIn, rwData, idLog>>
    /\ UNCHANGED lifeHist

\* ---------------------------------------------------------- specifications
SendSteps(P, M) ==
    \/ \E p \in P, m \in M : SendLockId(p, m)
    \/ \E p \in P : SendPush(p)
    \/ \E p \in P : SendCount(p)
    \/ \E p \in P : SendUnpark(p)

WorkerSteps ==
    \/ SwCheckRunning
    \/ SwCheckCount
    \/ SwUnparked
    \/ SwSpuriousWake
    \/ SwScan
    \/ SwDec
    \/ RwCheckRunning
    \/ RwFrame
    \/ RwPublish

RecvSteps(C) ==
    \/ \E c \in C : RecvCall(c)
    \/ \E c \in C : RecvLock(c)
    \/ \E c \in C : RecvReturn(c)

FaultSteps ==
    \/ \E k \in {"reset", "io"} : Fault(k)
    \/ RwError

\* The data path: one producer, one consumer, every kind of message, a
\* healthy stream and no stop().
Next ==
    \/ Start
    \/ SendSteps({"p1"}, Messages)
    \/ WorkerSteps
    \/ RecvSteps({"c1"})

Spec == Init /\ [][Next]_vars

\* Two producers race for send() with messages of every length class, all
\* of them values both codecs accept.
NextFifo ==
    \/ Start
    \/ SendSteps(Producers, {Msg(l) : l \in MsgLens})
    \/ WorkerSteps
    \/ RecvSteps({"c1"})

SpecFifo == Init /\ [][NextFifo]_vars

\* The life cycle: stop() and a stream that breaks at any moment.
NextEnv ==
    \/ Start
    \/ Stop
    \/ SendSteps({"p1"}, {Msg(5), Msg(SPLIT_SIZE + 1)})
    \/ WorkerSteps
    \/ FaultSteps
    \/ RecvSteps({"c1"})

SpecEnv == Init /\ [][NextEnv]_vars

\* Steps of threads that are running: once enabled, the scheduler takes
\* them.  Calls of the API (send, recv, start, stop), faults of the stream
\* and spurious wake-ups are not owed to anybody.
Fairness ==
    /\ \A p \in Producers : SF_vars(SendPush(p) \/ SendCount(p) \/ SendUnpark(p))
    /\ SF_vars(SwCheckRunning \/ SwCheckCount \/ SwUnparked \/ SwScan \/ SwDec)
    /\ SF_vars(RwCheckRunning \/ RwFrame \/ RwPublish \/ RwError)
    /\ \A c \in Consumers : SF_vars(RecvLock(c) \/ RecvReturn(c))

NextFair ==
    \/ Start
    \/ Stop
    \/ SendSteps({"p1"}, {Msg(5)})
    \/ WorkerSteps
    \/ RecvSteps(Consumers)

FairSpec == Init /\ [][NextFair]_vars /\ Fairness

\* The non-blocking consumer: try_recv() on a connection that is started,
\* used and stopped.
NextTry ==
    \/ Start
    \/ Stop
    \/ SendSteps({"p1"}, {Msg(5)})
    \/ WorkerSteps
    \/ \E c \in {"c1"} : TryRecv(c)

SpecTry == Init /\ [][NextTry]_vars

OpenSteps(O) ==
    \/ \E o \in O : OpenCheck(o)
    \/ \E o \in O : OpenInstall(o)
    \/ \E o \in O : OpenSend(o)
    \/ \E o \in O : SendPush(o)
    \/ \E o \in O : SendCount(o)
    \/ \E o \in O : SendUnpark(o)
    \/ \E o \in O : OpenSpawn(o)

UdpWorkerSteps ==
    \/ SuCheckRunning
    \/ SuCheckCount
    \/ SuSpuriousWake
    \/ SuScan
    \/ SuSend
    \/ SuDec
    \/ RuCheckRunning
    \/ RuLock
    \/ \E i \in DOMAIN udpWire : RuFrame(i)
    \/ RuPublish

\* Both transports: the datagram transport is opened on a connection that
\* is started at some moment, a message is sent besides OpenedUdp, and the
\* four workers run; datagrams may overtake each other.
NextUdp ==
    \/ Start
    \/ OpenSteps({"o1"})
    \/ (sends < MaxUdpSends /\ SendLockId("p1", Msg(5)))
    \/ SendPush("p1")
    \/ SendCount("p1")
    \/ SendUnpark("p1")
    \/ WorkerSteps
    \/ UdpWorkerSteps
    \/ RecvSteps({"c1"})

SpecUdp == Init /\ [][NextUdp]_vars

\* open_udp() called by two owner threads, one after the other or both at
\* once, on a connection that has not been started; the datagram workers
\* run and carry the OpenedUdp message.
NextOpen ==
    \/ OpenSteps(Owners)
    \/ UdpWorkerSteps

SpecOpen == Init /\ [][NextOpen]_vars

\* The lanes as the send worker may find them: the first, the default and
\* the last lane, any two or all three of them holding one packet, with
\* the ids given out in any order.  send() itself queues in lane 16 only.
LaneInputs == {0, DefaultLane, NumLanes - 1}

LaneConfigs ==
    {lanes \in UNION {[S -> {<<OutgoingPacket(to_bytes(m).bytes, id)>> :
                                m \in {Msg(5), Msg(SPLIT_SIZE + 1)},
                                id \in FirstId .. (FirstId + Cardinality(S) - 1)}] :
                       S \in {T \in SUBSET LaneInputs : Cardinality(T) >= 2}} :
        \A a, b \in DOMAIN lanes : a /= b => lanes[a][1].id /= lanes[b][1].id}

InitLanes ==
    /\ InitRest
    /\ packet_out \in LaneConfigs
    /\ packet_out_count = Cardinality(DOMAIN packet_out)
    /\ next_id = FirstId + Cardinality(DOMAIN packet_out)

\* The stream workers on lanes that hold packets when they start.
NextLanes ==
    \/ Start
    \/ SwCheckRunning
    \/ SwCheckCount
    \/ SwScan
    \/ SwDec
    \/ RwCheckRunning
    \/ RwFrame
    \/ RwPublish

SpecLanes == InitLanes /\ [][NextLanes]_vars

\* The datagram transport alone, on a connection that has not been started:
\* OpenedUdp and one more message travel as datagrams, which the network
\* may drop, duplicate and deliver out of order.
NextWire ==
    \/ OpenSteps({"o1"})
    \/ (sends < MaxUdpSends
          /\ \E m \in {Msg(0), Msg(SPLIT_SIZE + 1)} : SendLockId("p1", m))
    \/ SendPush("p1")
    \/ SendCount("p1")
    \/ SendUnpark("p1")
    \/ UdpWorkerSteps
    \/ \E i \in DOMAIN udpWire : UdpDrop(i)
    \/ \E i \in DOMAIN udpWire : UdpDup(i)

SpecWire == Init /\ [][NextWire]_vars

\* Shutdown: start(), open_udp() and stop() in any order on one connection,
\* the only traffic being the OpenedUdp notice; the four workers run.
NextStop ==
    \/ Start
    \/ Stop
    \/ OpenSteps({"o1"})
    \/ WorkerSteps
    \/ UdpWorkerSteps

SpecStop == Init /\ [][NextStop]_vars

\* Repeated start(): start() is called up to MaxStarts times and open_udp()
\* once; the only traffic is the OpenedUdp notice.
NextSpawn ==
    \/ Start
    \/ StartAgain
    \/ OpenSteps({"o1"})
    \/ WorkerSteps
    \/ UdpWorkerSteps

SpecSpawn == Init /\ [][NextSpawn]_vars

\* The send path on a connection that is never stopped: two producers race
\* with each other, with start() and with the send worker's counter check
\* and park; running threads are scheduled fairly.
NextRun ==
    \/ Start
    \/ SendSteps(Producers, {Msg(5)})
    \/ WorkerSteps

FairRun == Init /\ [][NextRun]_vars /\ Fairness

\* A frame fails in the codec of the stream: a message of two Data frames
\* is sent on a started connection, and once the codec refuses one frame.
NextCodec ==
    \/ Start
    \/ SendSteps({"p1"}, {Msg(SPLIT_SIZE + 1)})
    \/ WorkerSteps
    \/ Fault("codec")
    \/ RwError
    \/ RecvSteps({"c1"})

SpecCodec == Init /\ [][NextCodec]_vars

\* Sends before start(), as the client does (client/src/lib.rs, lines
\* 90-92): every send() is made and has returned before start() is called,
\* and none is made afterwards, so that nothing unparks the send worker.
NextEarly ==
    \/ (send_thread = "None" /\ \E m \in {Msg(5), Msg(SPLIT_SIZE + 1)} : SendLockId("p1", m))
    \/ SendPush("p1")
    \/ SendCount("p1")
    \/ SendUnpark("p1")
    \/ (sends > 0 /\ sendPc["p1"] = "idle" /\ Start)
    \/ SwCheckRunning
    \/ SwCheckCount
    \/ SwSpuriousWake
    \/ SwScan
    \/ SwDec
    \/ RwCheckRunning
    \/ RwFrame
    \/ RwPublish

FairEarly == Init /\ [][NextEarly]_vars /\ Fairness

\* ------------------------------------------------------------- properties
\* Every event the receive side has produced so far, in channel order: the
\* ones the consumers have taken, then the ones still in the channel.
Events == delivered \o chan

SelectKind(evs, k) == SelectSeq(evs, LAMBDA e : e.kind = k)

\* The messages among the events, in order.
ReceivedMsgs == [i \in DOMAIN SelectKind(Events, "Msg") |-> SelectKind(Events, "Msg")[i].msg]

DiscEvents == Len(SelectKind(Events, "Disc"))

\* a is b with some elements left out.
RECURSIVE IsSubSeq(_, _)
IsSubSeq(a, b) ==
    IF a = <<>> THEN TRUE
    ELSE IF b = <<>> THEN FALSE
    ELSE IF Head(a) = Head(b) THEN IsSubSeq(Tail(a), Tail(b))
    ELSE IsSubSeq(a, Tail(b))

\* Every send() has returned, every packet has been framed and popped, the
\* stream is drained and the receive worker waits for the next frame, on a
\* running connection with a healthy stream.
Quiescent ==
    /\ send_thread = "Some"
    /\ \A p \in Producers : sendPc[p] = "idle"
    /\ NonEmptyLanes(packet_out) = {}
    /\ swPc \in {"top", "count", "park"}
    /\ tcp = <<>>
    /\ rwPc \in {"top", "recv"}
    /\ fault = "none"
    /\ running

\* C1: round trip. Once every frame of the messages passed to send() has
\* been written and processed by the receive worker, on a started connection
\* with a healthy stream, the consumer's events are exactly those messages,
\* one event each and nothing else, whatever their serialized length.
C1_RoundTrip ==
    (Quiescent /\ \A i \in DOMAIN sentLog : sentLog[i].dec)
        => Events = [i \in DOMAIN sentLog |-> MsgEvent(sentLog[i])]

\* C2: same-lane FIFO. Ids are assigned in the order of the send() calls;
\* on the stream every frame of an earlier packet is written before any
\* frame of a later one, and the messages the consumer gets are in the
\* order of the send() calls.
C2_SameLaneFifo ==
    /\ \A i, j \in DOMAIN written : i < j => written[i].id <= written[j].id
    /\ IsSubSeq(ReceivedMsgs, sentLog)

\* Two messages of different length, the first of several frames, were sent
\* and both have reached the consumer.
C2_Witness ==
    /\ Len(sentLog) = 2
    /\ sentLog[1] = Msg(2 * SPLIT_SIZE + 1000)
    /\ sentLog[2] = Msg(5)
    /\ Len(delivered) = 2
    /\ ReceivedMsgs = sentLog

\* C3: disconnect propagation. Over the lifetime of the connection at most
\* one disconnect event is put into the consumer's channel, and exactly one
\* once a worker has met a peer-reset error, also when both workers meet it
\* and when stop() is called as well.
C3_DisconnectOnce ==
    /\ DiscEvents <= 1
    /\ (swPc = "disc" \/ rwPc = "disc") => DiscEvents = 1

\* The number of packets in the lanes.
RECURSIVE SumLens(_, _)
SumLens(lanes, S) ==
    IF S = {} THEN 0
    ELSE LET i == CHOOSE x \in S : TRUE
         IN  Len(Lane(lanes, i)) + SumLens(lanes, S \ {i})
Queued(lanes) == SumLens(lanes, NonEmptyLanes(lanes))

\* C4: send() on a Disconnected connection is a no-op. While a send() that
\* began on a Disconnected connection is in progress, no packet is added to
\* a lane, no id is consumed and the outstanding counter is not incremented.
C4_SendAfterDisconnectIsNoOp ==
    [][(\E p \in Producers : sendOnDisc[p])
         => /\ next_id' = next_id
            /\ Queued(packet_out') <= Queued(packet_out)
            /\ packet_out_count' <= packet_out_count]_vars

\* C5: stop() unblocks a parked send worker. A send worker that stop()
\* found parked eventually leaves its loop.
C5_StopUnparksSendWorker == parkedAtStop ~> (swPc = "exit")

\* C6: after stop(), every consumer that was inside the blocking recv()
\* when stop() was called eventually returns from it.
C6_StopReleasesConsumers ==
    \A c \in Consumers : (c \in waitingAtStop) ~> (c \notin waitingAtStop)

\* C7: an I/O error outside the peer-disconnect class never unwinds a
\* worker: no worker ends in a panic raised for such an error.
C7_IoErrorDoesNotPanic == swPc /= "panic_io" /\ rwPc /= "panic_io"

\* C8: once a worker has met a peer-disconnect error the connection is
\* Disconnected for all workers: the running flag they test is false.
C8_DisconnectStopsAllWorkers == (swPc = "disc" \/ rwPc = "disc") => ~running

\* C9: a value the codec rejects makes send() return a serialization error
\* to its caller: the call does not unwind the calling thread.
C9_SerializationErrorIsReturned == \A p \in Producers : sendPc[p] /= "panicked"

\* C10: a reassembled payload that cannot be deserialized is discarded and
\* the receive worker keeps running: it does not end in a panic raised by
\* the deserializer's error.
C10_DeserializationErrorKeepsRunning == rwPc /= "panic_decode"

\* C13: try_recv() tells "no message yet" from "disconnected": an empty
\* channel on a running connection is never reported with the result that a
\* disconnect is reported with.
C13_TryRecvDistinguishes ==
    \A a, b \in tryLog :
        (a.found = "Empty" /\ a.live /\ b.found = "Disc")
            => a.returned /= b.returned

\* C14: ids are unique per connection. The first id send() gives out is 1,
\* every later one is greater than all before it, and the packets queued
\* in a lane are in increasing id order, with producers racing for send().
C14_UniqueIncreasingIds ==
    /\ idLog /= <<>> => idLog[1] = 1
    /\ \A i, j \in DOMAIN idLog : i < j => idLog[i] < idLog[j]
    /\ \A l \in DOMAIN packet_out : \A i, j \in DOMAIN packet_out[l] :
           i < j => packet_out[l][i].id < packet_out[l][j].id

\* Both producers are inside send(), one waiting for the other's guards,
\* and the lane holds the packets of two calls.
C14_Witness ==
    /\ Len(idLog) = 2
    /\ Len(Lane(packet_out, DefaultLane)) = 2
    /\ \E p \in Producers : sendPc[p] = "count"

\* C11: a Data frame whose id has no packet in the in-flight map does not
\* crash the worker that receives it, neither on the stream nor on the
\* datagram transport.
C11_UnknownIdDoesNotCrash == rwPc /= "panic_unwrap" /\ ruPc /= "panic_unwrap"

\* The payloads of the messages among the events, in order.
ReceivedPayloads == [i \in DOMAIN ReceivedMsgs |-> to_bytes(ReceivedMsgs[i]).bytes]

\* C12: the consumer obtains the messages in the order in which their
\* reassembly completed, also when the stream and the datagram receive
\* worker complete messages concurrently: the messages taken so far and
\* those waiting in the channel are the first completed payloads, in order.
C12_CompletionOrder ==
    /\ Len(ReceivedPayloads) <= Len(completed)
    /\ \A i \in DOMAIN ReceivedPayloads : ReceivedPayloads[i] = completed[i]

\* The stream worker completed one message and the datagram worker the
\* other, and the consumer has taken both.
C12_Witness ==
    /\ Len(completed) = 2
    /\ Len(delivered) = 2
    /\ completed[1] /= completed[2]
    /\ \E f \in {written[i] : i \in DOMAIN written} :
           f.kind = "Data" /\ f.data = completed[1]
    /\ \E f \in {udpWritten[i] : i \in DOMAIN udpWritten} :
           f.kind = "Data" /\ f.data = completed[2]

\* C15: open_udp() on a connection that already has a datagram transport
\* fails loudly. The call panics at its test and stays panicked; it does
\* not replace the transport, enqueues no OpenedUdp and spawns no worker.
C15_SecondOpenFailsLoudly ==
    [][\A o \in Owners :
         /\ (openPc[o] = "idle" /\ openPc'[o] /= "idle" /\ udp /= "None")
               => /\ openPc'[o] = "panicked"
                  /\ UNCHANGED <<udp, packet_out, packet_out_count, next_id,
                                 suPc, ruPc>>
         /\ openPc[o] = "panicked" => openPc'[o] = "panicked"]_vars

\* An owner's open_udp() has panicked on the transport the other owner
\* installed, whose call went through and spawned the workers.
C15_Witness ==
    \E o, q \in Owners :
        /\ openPc[o] = "panicked"
        /\ openPc[q] = "done"
        /\ udp = q
        /\ idLog = <<FirstId>>

\* The frames written to the stream for the packet of this id, in order.
FramesOf(id) == SelectSeq(written, LAMBDA f : f.id = id)

\* The packet of this id has left the lanes.
Popped(id) ==
    /\ id < next_id
    /\ \A l \in DOMAIN packet_out : \A i \in DOMAIN packet_out[l] :
           packet_out[l][i].id /= id
    /\ swPc /= "dec"

Ceil(a, b) == (a + b - 1) \div b

\* C16: fragmentation count. For a message whose serialization has L bytes
\* the send worker writes exactly one Header and then exactly ceil(L / 2000)
\* Data frames, each of at most 2000 bytes, before it pops the packet.
C16_FragmentCount ==
    \A k \in DOMAIN idLog :
        Popped(idLog[k]) =>
            LET fs == FramesOf(idLog[k])
                L == BytesLen(to_bytes(sentLog[k]).bytes)
            IN  /\ Len(fs) = 1 + Ceil(L, 2000)
                /\ fs[1].kind = "Header"
                /\ \A j \in 2 .. Len(fs) :
                      fs[j].kind = "Data" /\ BytesLen(fs[j].data) <= 2000

\* A message of 5000 bytes has been framed and popped: one Header and
\* three Data frames are on record.
C16_Witness ==
    \E k \in DOMAIN idLog :
        /\ Popped(idLog[k])
        /\ BytesLen(to_bytes(sentLog[k]).bytes) = 5000
        /\ Len(FramesOf(idLog[k])) = 4

\* The datagram receive worker takes the i-th datagram in flight.
RuTakes(i) ==
    /\ ruPc = "recv"
    /\ ruPc' /= "recv"
    /\ i \in DOMAIN udpWire
    /\ udpWire' = RemoveAt(udpWire, i)

\* Every send() and open_udp() has returned, every packet has left as
\* datagrams, no datagram is in flight and the datagram receive worker
\* waits for the next one, on a running connection.
QuietWire ==
    /\ \A p \in Producers \cup Owners : sendPc[p] = "idle"
    /\ \A o \in Owners : openPc[o] \in {"idle", "done"}
    /\ NonEmptyLanes(packet_out) = {}
    /\ suPc \in {"top", "count", "park"}
    /\ udpWire = <<>>
    /\ ruPc \in {"top", "lock", "recv"}
    /\ running

Panics == {"panic_unwrap", "panic_frame", "panic_decode", "panic_io"}

\* C18: datagram tolerance. When all the network does is drop Data frames
\* (no Header dropped, no datagram duplicated, none overtaking): no worker
\* crashes; a message that lost a Data frame never completes; and once the
\* connection is quiet every message that lost no datagram has reached the
\* consumer's channel.
C18_DatagramTolerance ==
    (wireDups = 0 /\ ~overtaken /\ lost /= {} /\ \A d \in lost : d.kind = "Data") =>
        /\ ruPc \notin Panics /\ suPc \notin Panics
        /\ \A k \in DOMAIN idLog :
              [id |-> idLog[k], kind |-> "Data"] \in lost
                  => \A j \in DOMAIN completed :
                        completed[j] /= to_bytes(sentLog[k]).bytes
        /\ QuietWire =>
              \A k \in DOMAIN idLog :
                  (\A d \in lost : d.id /= idLog[k])
                      => \E j \in DOMAIN Events : Events[j] = MsgEvent(sentLog[k])

\* C19: a Header for an id that is already in the in-flight map replaces
\* that id's packet by a fresh, empty one of the announced size and leaves
\* the packets of all other ids as they were.
C19_HeaderReplaces ==
    [][\A i \in DOMAIN udpWire :
         (RuTakes(i) /\ udpWire[i].kind = "Header"
                     /\ udpWire[i].id \in DOMAIN packet_in)
           => /\ DOMAIN packet_in' = DOMAIN packet_in
              /\ packet_in'[udpWire[i].id] =
                    [id |-> udpWire[i].id, total |-> udpWire[i].length,
                     data |-> <<>>, pos |-> 0]
              /\ \A k \in DOMAIN packet_in \ {udpWire[i].id} :
                    packet_in'[k] = packet_in[k]]_vars

\* A duplicated Header has replaced the part-filled packet of its id, and
\* the packet of another id is in the map, complete.
C19_Witness ==
    \E id \in replaced, k \in DOMAIN packet_in :
        /\ id \in DOMAIN packet_in
        /\ packet_in[id].pos = 0
        /\ packet_in[id].total = SPLIT_SIZE + 1
        /\ \E i \in DOMAIN udpWritten :
              udpWritten[i].kind = "Data" /\ udpWritten[i].id = id
        /\ k /= id
        /\ packet_in[k].pos = packet_in[k].total
        /\ packet_in[k].total > 0

\* C20: a duplicate Data frame for an id whose message has already
\* completed is silently dropped. The worker that takes it goes on to its
\* next iteration; the in-flight map, the channel and the record of
\* completions stay as they were.
C20_DuplicateDataIsDropped ==
    [][\A i \in DOMAIN udpWire :
         (RuTakes(i) /\ udpWire[i].kind = "Data"
                     /\ udpWire[i].id \in DOMAIN packet_in
                     /\ packet_in[udpWire[i].id].total > 0
                     /\ packet_in[udpWire[i].id].pos = packet_in[udpWire[i].id].total)
           => /\ ruPc' = "top"
              /\ UNCHANGED <<packet_in, chan, completed>>]_vars

\* C17: lane priority. With packets queued in several lanes before the
\* send worker runs, every frame it writes comes from the head packet of
\* the lowest-indexed lane that holds a packet at that moment, and no packet
\* has given a frame while a lower-indexed lane still holds a packet.
C17_LanePriority ==
    /\ [](\A a, b \in DOMAIN packet_out :
             a < b => \A i \in DOMAIN packet_out[b] : ~packet_out[b][i].headersent)
    /\ [][written' /= written =>
             \E l \in DOMAIN packet_out :
                 /\ packet_out[l][1].id = written'[Len(written')].id
                 /\ \A j \in 0 .. (l - 1) : Lane(packet_out, j) = <<>>]_vars

\* Lanes 0, 16 and 254 each held a packet; those of lanes 0 and 16 are
\* written and popped and the one of lane 254 has given its Header.
C17_Witness ==
    /\ DOMAIN packet_out = {NumLanes - 1}
    /\ packet_out[NumLanes - 1][1].headersent
    /\ next_id = FirstId + 3
    /\ Len(written) >= 5

\* C21: a zero-length message is delivered. Its sender writes one Header
\* with total_size 0 and no Data frame, and once the receive worker has
\* taken every frame off the stream the consumer's events hold the message.
C21_ZeroLengthDelivered ==
    /\ \A i \in DOMAIN written :
           (written[i].kind = "Header" /\ written[i].length = 0)
               => \A j \in DOMAIN written :
                      written[j].id = written[i].id => j = i
    /\ Quiescent
           => \A i \in DOMAIN sentLog :
                  (sentLog[i].enc /\ sentLog[i].dec
                       /\ BytesLen(to_bytes(sentLog[i]).bytes) = 0)
                      => \E k \in DOMAIN Events : Events[k] = MsgEvent(sentLog[i])

\* Where a worker of the first start() or open_udp() is in its loop.
WorkerPc(w) ==
    CASE w = "sw" -> swPc
      [] w = "rw" -> rwPc
      [] w = "su" -> suPc
      [] w = "ru" -> ruPc

\* C22: the cleared running flag is terminal. No step sets the flag again
\* once it is false, and a worker that start() or open_udp() spawned with
\* the flag false has handled no frame: it is at the top of its loop or has
\* left it, and never got to its scan or its receive.
C22_StoppedIsTerminal ==
    /\ [][~running => ~running']_vars
    /\ [](\A w \in lateSpawn :
             /\ WorkerPc(w) \in {"top", "exit"}
             /\ afterStop[w] = 0)

\* stop() came first, then start() and open_udp(): all four workers were
\* spawned late and have exited with OpenedUdp still queued.
C22_Witness ==
    /\ lateSpawn = Workers
    /\ \A w \in Workers : WorkerPc(w) = "exit"
    /\ packet_out_count > 0
    /\ written = <<>> /\ udpWritten = <<>>

\* A worker thread that has been spawned and has neither returned from its
\* loop nor panicked.
Live(w) ==
    WorkerPc(w) \notin {"none", "exit", "panic_io", "panic_unwrap",
                        "panic_frame", "panic_decode"}

\* The live workers of a kind: the one of the first pair, and for the stream
\* kinds the ones of the further start() calls, none of which can leave its
\* loop while the flag is set and the stream is healthy.
LiveCount(w) ==
    (IF Live(w) THEN 1 ELSE 0)
        + (IF w \in {"sw", "rw"} /\ running /\ fault = "none"
           THEN extraPairs ELSE 0)

\* C23: whatever start(), open_udp(), send() and stop() calls were made, the
\* connection has at most one live worker of each of the four kinds.
C23_AtMostFourWorkers == \A w \in Workers : LiveCount(w) <= 1

\* C24: a completed packet leaves the in-flight map. Once a receive worker
\* is through with the Data frame that brought the write cursor to
\* total_size (and has not crashed on it), the map holds only ids whose
\* reassembly is incomplete.
C24_CompletedPacketRemoved ==
    (rwPc \notin Panics \cup {"publish"} /\ ruPc \notin Panics \cup {"publish"})
        => \A id \in DOMAIN packet_in :
               packet_in[id].total > 0
                   => packet_in[id].pos < packet_in[id].total

\* C25: after stop() has cleared the running flag a worker does at most one
\* more round of its loop: a send worker writes at most one further frame
\* and a receive worker processes at most one further frame.
C25_OneMoreIteration == \A w \in Workers : afterStop[w] <= 1

\* stop() fell between each worker's flag test and its frame: every worker
\* has handled one frame with the flag false and then left its loop.
C25_Witness ==
    /\ \A w \in Workers : afterStop[w] = 1
    /\ \A w \in Workers : WorkerPc(w) = "exit"

\* The packet of this id is queued in a lane.
InLane(id) ==
    \E l \in DOMAIN packet_out : \E i \in DOMAIN packet_out[l] :
        packet_out[l][i].id = id

\* The payload bytes the Data frames of a frame sequence carry.
RECURSIVE DataSum(_)
DataSum(frames) ==
    IF frames = <<>> THEN 0
    ELSE (IF Head(frames).kind = "Data" THEN BytesLen(Head(frames).data) ELSE 0)
             + DataSum(Tail(frames))

\* Header first, then Data frames that carry as many bytes as it announced.
WholeMessage(frames) ==
    /\ frames /= <<>>
    /\ frames[1].kind = "Header"
    /\ \A i \in 2 .. Len(frames) : frames[i].kind = "Data"
    /\ DataSum(frames) = frames[1].length

\* C26: no lost wake-up. On a started connection that stays running, with a
\* healthy stream, every packet send() has queued is in the end completely
\* framed and popped from its lane, however send()'s push, counter increment
\* and unpark interleave with the send worker's counter check and park.
C26_NoLostWakeup ==
    \A id \in FirstId .. (FirstId + MaxSends - 1) :
        (send_thread = "Some" /\ InLane(id))
            ~> (Popped(id) /\ WholeMessage(FramesOf(id)))

\* The worker read a zero counter and is on its way into park(); send() has
\* queued a packet and unparked it in between, so the token is waiting.
C26_Witness ==
    /\ swPc = "park"
    /\ swToken
    /\ packet_out_count > 0
    /\ \E id \in FirstId .. (FirstId + MaxSends - 1) : InLane(id)

\* C27: send() wakes the datagram send worker too. A send() that returns
\* while the datagram send worker is parked leaves that worker's token
\* set, so that it goes back to the outstanding counter.
C27_DatagramWorkerWoken ==
    [][\A p \in Producers \cup Owners :
         (sendPc[p] = "unpark" /\ sendPc'[p] = "idle" /\ suPc = "park")
             => (suToken' \/ suPc' /= "park")]_vars

\* The thread that holds a lock of the connection, "none" if it is free.
LockOwner(l) ==
    CASE l = "next_id" -> lkId
      [] l = "packet_out" -> lkOut
      [] l = "packet_out_count" -> lkCount
      [] l = "recvd_message_read" -> lkRead
      [] l = "udp" -> lkUdp
      [] l = "packet_in" -> lkIn
      [] OTHER -> "none"

\* The locks a thread holds.
Held(t) ==
    {l \in {"next_id", "packet_out", "packet_out_count", "recvd_message_read",
            "udp", "packet_in"} : LockOwner(l) = t}

\* The lock the next step of a thread takes, "none" if that step takes none.
Wants(t) ==
    CASE t \in Producers \cup Owners /\ sendPc[t] = "push" -> "packet_out"
      [] t \in Producers \cup Owners /\ sendPc[t] = "count" -> "packet_out_count"
      [] t \in Owners /\ sendPc[t] = "idle" /\ openPc[t] = "install" -> "udp"
      [] t \in Owners /\ sendPc[t] = "idle" /\ openPc[t] = "send" -> "next_id"
      [] t \in Consumers /\ conPc[t] = "lock" -> "recvd_message_read"
      [] t = "sw" /\ swPc \in {"count", "dec"} -> "packet_out_count"
      [] t = "sw" /\ swPc = "scan" -> "packet_out"
      [] t = "su" /\ suPc \in {"count", "dec"} -> "packet_out_count"
      [] t = "su" /\ suPc = "scan" -> "packet_out"
      [] t = "su" /\ suPc = "send" -> "udp"
      [] t = "rw" /\ rwPc = "recv" -> "packet_in"
      [] t = "ru" /\ ruPc = "lock" -> "udp"
      [] t = "ru" /\ ruPc = "recv" -> "packet_in"
      [] OTHER -> "none"

\* Thread t waits for a lock whose holder waits for a lock ... whose holder
\* is the target, along at most n waits.
RECURSIVE WaitChain(_, _, _)
WaitChain(t, target, n) ==
    /\ n > 0
    /\ LockOwner(Wants(t)) \notin {"none", t}
    /\ \/ LockOwner(Wants(t)) = target
       \/ WaitChain(LockOwner(Wants(t)), target, n - 1)

\* No thread waits, along a chain of lock holders, for itself.
NoWaitCycle ==
    \A t \in Producers \cup Owners \cup Consumers \cup Workers :
        ~WaitChain(t, t, 10)

\* C28: lock discipline. No thread holds two locks of the connection at
\* once, except the lanes and then the counter; and in no state do threads
\* wait for each other's locks in a cycle.
C28_LockDiscipline ==
    /\ \A t \in Producers \cup Owners \cup Consumers \cup Workers :
           \/ Cardinality(Held(t)) <= 1
           \/ Held(t) = {"packet_out", "packet_out_count"}
    /\ NoWaitCycle

\* C30: one message, one transport. No id has frames written both to the
\* stream and to the datagram socket.
C30_OneTransportPerMessage ==
    \A i \in DOMAIN written : \A j \in DOMAIN udpWritten :
        written[i].id /= udpWritten[j].id

\* The frames written to the datagram socket for the packet of this id.
UdpFramesOf(id) == SelectSeq(udpWritten, LAMBDA f : f.id = id)

\* C29: wire invariant per id. On each transport that carries frames of an
\* id, one Header of that id is written and it comes before every Data
\* frame of the id; and once the packet is popped, the Data frames of the
\* id on that transport carry as many bytes as the Header announced.
C29_WireInvariant ==
    \A id \in FirstId .. (next_id - 1) :
        \A frames \in {FramesOf(id), UdpFramesOf(id)} :
            frames /= <<>> =>
                /\ frames[1].kind = "Header"
                /\ \A i \in 2 .. Len(frames) : frames[i].kind = "Data"
                /\ DataSum(frames) <= frames[1].length
                /\ (Popped(id) /\ suPc /= "dec") => WholeMessage(frames)

\* Send workers that have popped a packet and not yet decremented the
\* counter (lines 201-203 and 294-296); they hold the lanes meanwhile.
Popping == Cardinality({w \in {"sw", "su"} : WorkerPc(w) = "dec"})

\* C31, as stated: the outstanding counter is never negative, never more
\* than the number of packets queued in the lanes, and equal to that number
\* whenever no send() is between its push and its increment.
C31_CounterAccounting ==
    /\ packet_out_count >= 0
    /\ packet_out_count <= Queued(packet_out)
    /\ (\A p \in Producers \cup Owners : sendPc[p] /= "count")
           => packet_out_count = Queued(packet_out)

\* C31, amended: the counter is never negative; it is the number of queued
\* packets plus one for a send worker that is between its pop and its
\* decrement, less one for a send() that is between its push and its
\* increment; this with both send workers popping.
C31_CounterAccountingAmended ==
    /\ packet_out_count >= 0
    /\ packet_out_count <= Queued(packet_out) + Popping
    /\ (\A p \in Producers \cup Owners : sendPc[p] /= "count")
           => packet_out_count = Queued(packet_out) + Popping
    /\ (\E p \in Producers \cup Owners : sendPc[p] = "count")
           => packet_out_count = Queued(packet_out) + Popping - 1

\* The datagram send worker has popped the second packet and stands before
\* its decrement, the stream send worker having popped the first: the
\* lanes are empty and the counter is still 1.
C31_Witness ==
    /\ suPc = "dec"
    /\ Queued(packet_out) = 0
    /\ packet_out_count = 1
    /\ next_id = FirstId + 2
    /\ written /= <<>>

\* A receive worker that is inside the socket read of its transport with
\* nothing to read (lines 218 and 312).
BlockedInRead(w) ==
    \/ w = "rw" /\ rwPc = "recv" /\ tcp = <<>>
    \/ w = "ru" /\ ruPc = "recv" /\ udpWire = <<>>

\* C32: the send path never waits on inbound traffic. Neither a send() call
\* nor the stream send worker waits for a lock whose holder, directly or
\* along a chain of lock waits, is a thread blocked in a socket read.
C32_SendPathIndependent ==
    \A t \in Producers \cup Owners \cup {"sw"} : \A w \in {"rw", "ru"} :
        (t = "sw" \/ sendPc[t] /= "idle")
            => ~(BlockedInRead(w) /\ WaitChain(t, w, 10))

\* C33: the disconnect event is the last one. Among the events the
\* consumers have taken from the channel with recv() or try_recv(), no
\* message comes after a disconnect sentinel.
C33_DisconnectIsLast ==
    \A i, j \in DOMAIN delivered :
        (i < j /\ delivered[i].kind = "Disc") => delivered[j].kind /= "Msg"

\* C34: no recv() blocks forever on a dead connection. With the running
\* flag false and both stream workers gone, a consumer that is inside the
\* blocking recv() eventually returns from it, also when the disconnect
\* sentinel has been consumed before.
C34_RecvReturnsWhenDead ==
    \A c \in Consumers :
        (~running /\ swPc = "exit" /\ rwPc = "exit" /\ conPc[c] /= "idle")
            ~> (conPc[c] = "idle")

\* C35: no frame is silently skipped. A round of the stream send worker in
\* which the head packet yielded a frame and after which the worker goes
\* on with its loop has written that frame to the stream.
C35_NoFrameSkipped ==
    [][(swPc = "scan" /\ swPc' = "top" /\ SendsFrame(packet_out))
          => Len(written') = Len(written) + 1]_vars

\* C36: messages sent before start() are not lost. Until start() they stay
\* queued, each counted in the outstanding counter; after start() the
\* stream send worker writes all their frames, packet after packet in the
\* order of the send() calls, with no further send() to wake it.
C36_SendsBeforeStartKept ==
    /\ []((send_thread = "None" /\ sendPc["p1"] = "idle")
             => /\ Queued(packet_out) = sends
                /\ packet_out_count = sends
                /\ written = <<>>)
    /\ [](\A i, j \in DOMAIN written : i < j => written[i].id <= written[j].id)
    /\ (send_thread = "Some")
           ~> (\A id \in FirstId .. (FirstId + sends - 1) :
                   Popped(id) /\ WholeMessage(FramesOf(id)))

\* Two messages were sent, then start() was called: the worker, never
\* unparked, has written both in order and popped them.
C36_Witness ==
    /\ send_thread = "Some"
    /\ sends = MaxSends
    /\ ~swToken
    /\ Queued(packet_out) = 0 /\ packet_out_count = 0
    /\ \A id \in FirstId .. (FirstId + MaxSends - 1) : WholeMessage(FramesOf(id))

\* An open_udp() call that has installed its datagram transport (line 97).
Installed(o) == openPc[o] \in {"send", "sending", "done"}

\* C37: at most one datagram transport, even under races. Of the threads
\* that call open_udp() on one connection at most one installs a transport
\* and goes on to spawn the datagram workers.
C37_OneDatagramTransport ==
    \A o, q \in Owners : (Installed(o) /\ Installed(q)) => o = q

====
